---- MODULE Spec2Model ----
(***************************************************************************)
(* SlugSight ground station: the ingestion thread (serial_reader_thread:   *)
(* connection manager, packet reader, logging, store update, broadcast)    *)
(* and the WebSocket subscriber handlers (ws), sharing global_status,      *)
(* global_data and global_clients under data_lock.                         *)
(* Modelled from src/gds/slugsight_gds.py.  src/gds/advanced_web_gui.py    *)
(* has the same two functions, except that it writes every accepted record *)
(* to the log (slugsight_gds.py skips the record whose packet_count is 0). *)
(* The locator is taken as the specification gives it: it returns a port   *)
(* or nothing, and does not raise.                                         *)
(* TelemetryParser (src/gds/telemetry_parser.py) and DataLogger            *)
(* (src/gds/data_logger.py) are also modelled each on its own, call by     *)
(* call: ParserSpec and LoggerSpec; IngestSpec is the read loop with both  *)
(* in place, ShutdownSpec the end of __main__ in either script.            *)
(***************************************************************************)
EXTENDS Integers, Sequences, FiniteSets, TLC

\* ------------------------------------------------------------- bounds
MaxClients == 2
MaxRecords == 2

Clients == 1..MaxClients

\* ---------------------------------------------------------- constants
NOT_FOUND == "NOT_FOUND"
Ports == {"P1"}
\* holders of data_lock: a handler is named by its client, 0 is nobody
FREE == 0
READER == MaxClients + 1

VARIABLES
  port,            \* serial_reader_thread's local `port`
  rpc,             \* position of the ingestion thread
  ser_open,        \* the serial.Serial object `ser` is open
  global_status,   \* [arduino_connected, port]
  global_data,     \* id of the record last copied into global_data (0: defaults)
  global_clients,  \* the subscriber registry (a list)
  data_lock,       \* holder of data_lock, or FREE
  packet_count,    \* TelemetryParser.packet_count
  parsed,          \* parsed_telemetry of the frame in progress: [rid, packet_count]
  payload,         \* the ingestion thread's serialized envelope
  copy,            \* current_clients_copy
  idx,             \* position of the send loop in current_clients_copy
  dead_clients,    \* dead_clients of the round in progress
  log_rows,        \* rows handed to datalogger.write that were written
  hpc,             \* position of each subscriber handler
  hpayload,        \* each handler's serialized snapshot
  conn,            \* each subscriber's transport: "ok", "stalled", "broken"
  sent,            \* history: per subscriber, the sends that returned
  regAt,           \* history: packet_count when the subscriber was appended
  rounds,          \* history: record ids whose broadcast round has completed
  waits,           \* history: back-off sleeps since the last attempt
  failed,          \* history: the last attempt ended in a failure
  known,           \* history: addresses given at start or returned by the locator
  \* TelemetryParser, taken alone (its packet_count is the variable above)
  parser_config,   \* TelemetryParser.config
  raw_data,        \* the argument of the last parse call, split on ','
  ret,             \* what the last parse call did: returned a record, None, or raised
  accepted,        \* history: the packet_count carried by each record returned
  \* DataLogger, taken alone
  logger_config,   \* DataLogger.config
  csv_file,        \* DataLogger.csv_file: "open" or "closed"
  csv_writer,      \* DataLogger.csv_writer: its fieldnames, or NoWriter
  write_count,     \* DataLogger._write_count (0: the attribute is not set yet)
  file_rows,       \* the lines written to csv_file, in order
  flushed,         \* how many of them a flush has pushed to the disk
  lret,            \* what the last DataLogger call did
  flushed_after,   \* history: the writes (by number) that ended with a flush
  written,         \* history: the dictionaries whose row writerow has written
  \* the read loop with the parser and the logger it calls
  frame,           \* history: what the last readline gave
  \* __main__ from app.run on
  entry,           \* the script run: "slugsight_gds" or "advanced_web_gui"
  mainpc,          \* position of the main thread
  closes,          \* history: the calls of datalogger.close() made by __main__
  \* the store as the read loop with its parser fills it
  data_values      \* global_data: the string held for each channel

parserVars == << parser_config, raw_data, ret, accepted >>

loggerVars == << logger_config, csv_file, csv_writer, write_count, file_rows,
                 flushed, lret, flushed_after, written >>

mainVars == << entry, mainpc, closes >>

unitVars == << parserVars, loggerVars, frame, mainVars, data_values >>

vars == << port, rpc, ser_open, global_status, global_data, global_clients,
           data_lock, packet_count, parsed, payload, copy, idx, dead_clients,
           log_rows, hpc, hpayload, conn, sent, regAt, rounds, waits, failed,
           known, unitVars >>

handlerVars == << hpc, hpayload, regAt >>

NoRecord == [rid |-> 0, packet_count |-> 0]
NoPayload == [type |-> "", connected |-> FALSE, port |-> "", data |-> -1]

\* json.dumps({"type": "update", "status": global_status, "data": global_data})
Envelope(status, data) ==
  [type |-> "update", connected |-> status.arduino_connected,
   port |-> status.port, data |-> data]

\* the list left as it is
KeepAll(s, x) == s

\* `list.remove(x)` guarded by `x in list`: drops the first occurrence
RECURSIVE RemoveFirst(_, _)
RemoveFirst(s, x) ==
  IF s = << >> THEN << >>
  ELSE IF Head(s) = x THEN Tail(s)
  ELSE << Head(s) >> \o RemoveFirst(Tail(s), x)

RECURSIVE RemoveAll(_, _)
RemoveAll(s, ds) ==
  IF ds = << >> THEN s ELSE RemoveAll(RemoveFirst(s, Head(ds)), Tail(ds))

Range(s) == { s[i] : i \in 1..Len(s) }

\* The parser and the logger are also taken alone, each under a specification
\* of its own (ParserSpec, LoggerSpec); in the specifications of the threads,
\* where a record is [rid, packet_count] and the log is log_rows, their
\* variables stay as they are here.
NoCall == [out |-> "nocall", packet_count |-> -1, ch |-> << >>]
NoWriter == [made |-> FALSE, fieldnames |-> {}]

ParserAtRest ==
  /\ parser_config = [enable_range_check |-> FALSE, ranges |-> << >>]
  /\ raw_data = << >>
  /\ ret = NoCall
  /\ accepted = << >>

LoggerAtRest ==
  /\ logger_config = [buffer_size |-> 10, include_header |-> TRUE,
                      float_precision |-> 6]
  /\ csv_file = "closed"
  /\ csv_writer = NoWriter
  /\ write_count = 0
  /\ file_rows = << >>
  /\ flushed = 0
  /\ lret = "nocall"
  /\ flushed_after = {}
  /\ written = << >>

\* DATA_LABELS (lines 18-26), each through _sanitize_label (lines 45-51):
\* lower case, every run of characters outside a-z0-9 to "_", "_" stripped
\* at both ends
KeyMap ==
  << "pitch", "roll", "yaw", "altitude", "velocity", "accel_x", "accel_y",
     "accel_z", "pressure_pa", "imu_temp_c", "gps_fix", "gps_sats", "gps_lat",
     "gps_lon", "gps_alt_m", "gps_speed_m_s", "vbat", "rssi" >>

Keys == Range(KeyMap)

\* a Python string
Str(s) == [t |-> "str", k |-> s, v |-> 0]

\* slugsight_gds.py lines 192-193: every label of the parser at "0.0" and
\* sys_status at 'active', before the thread and the server start.  The
\* labels go by their keys: reverse_key_map (line 190) is one to one.
InitialData ==
  [k \in Keys \cup {"sys_status"} |->
     IF k = "sys_status" THEN Str("active") ELSE Str("0.0")]

\* __main__ of slugsight_gds.py in app.run (line 209), nothing read yet
MainAtRun ==
  /\ data_values = InitialData
  /\ frame = "nothing"
  /\ entry = "slugsight_gds"
  /\ mainpc = "run"
  /\ closes = 0

UnitsAtRest == ParserAtRest /\ LoggerAtRest /\ MainAtRun

\* the variables of the threads, but for the parser's counter
threadVars == << port, rpc, ser_open, global_status, global_data,
                 global_clients, data_lock, parsed, payload, copy, idx,
                 dead_clients, log_rows, hpc, hpayload, conn, sent, regAt,
                 rounds, waits, failed, known >>

\* no thread started: the state of the module once loaded (lines 32-38)
ThreadsAtRest ==
  /\ port = NOT_FOUND
  /\ rpc = "off"
  /\ ser_open = FALSE
  /\ global_status = [arduino_connected |-> FALSE, port |-> "Not Found"]
  /\ global_data = 0
  /\ global_clients = << >>
  /\ data_lock = FREE
  /\ parsed = NoRecord
  /\ payload = NoPayload
  /\ copy = << >>
  /\ idx = 1
  /\ dead_clients = << >>
  /\ log_rows = << >>
  /\ hpc = [c \in Clients |-> "idle"]
  /\ hpayload = [c \in Clients |-> NoPayload]
  /\ conn = [c \in Clients |-> "ok"]
  /\ sent = [c \in Clients |-> << >>]
  /\ regAt = [c \in Clients |-> 0]
  /\ rounds = << >>
  /\ waits = 0
  /\ failed = FALSE
  /\ known = {}

\* ---------------------------------------------------------------- Init
\* Module level (lines 32-38) and __main__ (lines 192-203): the locator is
\* called once; global_status["port"] and the thread's port follow its answer.
ThreadsInit ==
  /\ \E p \in Ports \cup {NOT_FOUND} :
       /\ port = p
       /\ global_status = [arduino_connected |-> FALSE,
                           port |-> IF p = NOT_FOUND THEN "Not Found" ELSE p]
       /\ known = IF p = NOT_FOUND THEN {} ELSE {p}
  /\ rpc = "top"
  /\ ser_open = FALSE
  /\ global_data = 0
  /\ global_clients = << >>
  /\ data_lock = FREE
  /\ packet_count = 0
  /\ parsed = NoRecord
  /\ payload = NoPayload
  /\ copy = << >>
  /\ idx = 1
  /\ dead_clients = << >>
  /\ log_rows = << >>
  /\ hpc = [c \in Clients |-> "idle"]
  /\ hpayload = [c \in Clients |-> NoPayload]
  /\ conn = [c \in Clients |-> "ok"]
  /\ sent = [c \in Clients |-> << >>]
  /\ regAt = [c \in Clients |-> 0]
  /\ rounds = << >>
  /\ waits = 0
  /\ failed = FALSE

Init == ThreadsInit /\ UnitsAtRest

\* with data_lock: (acquire)
Acquire(who) == data_lock = FREE /\ data_lock' = who

\* the lock kept past the end of the block
KeepLock(who) == data_lock = who /\ data_lock' = who

\* the end of a `with data_lock:` block
Release(who) == data_lock = who /\ data_lock' = FREE

\* ------------------------------------------------ serial_reader_thread
\* the test of line 55 left out: the sentinel is taken for an address
NeverSentinel(p) == FALSE

\* line 55: if port == "NOT_FOUND"
IsSentinel(p) == p = NOT_FOUND

\* the connection loop left after one pass
StopAfterBackoff == "exit"

\* the enclosing `while True` (line 54): after the back-off the loop starts over
AfterBackoff == "top"

\* the send loop left at the first failed send
BreakAfterFailure(i, n) == n + 1

\* lines 108-113: the send loop goes on to the next client after a failed send
NextAfterFailure(i, n) == i + 1

\* the dead clients left in the registry
NotPruned(clients, dead) == clients

\* lines 115-119: every dead client still in the registry is removed
Pruned(clients, dead) == RemoveAll(clients, dead)

\* the flag left as it is when Connected is left
StillConnected(status) == status

\* line 140: global_status["arduino_connected"] = False
Disconnected(status) == [status EXCEPT !.arduino_connected = FALSE]

\* A handler that has returned, whose ws object no thread refers to any more,
\* leaves nothing behind: its slot stands for the next connection's ws object.
Gone(S) ==
  /\ hpc' = [c \in Clients |-> IF c \in S THEN "idle" ELSE hpc[c]]
  /\ hpayload' = [c \in Clients |-> IF c \in S THEN NoPayload ELSE hpayload[c]]
  /\ conn' = [c \in Clients |-> IF c \in S THEN "ok" ELSE conn[c]]
  /\ sent' = [c \in Clients |-> IF c \in S THEN << >> ELSE sent[c]]
  /\ regAt' = [c \in Clients |-> IF c \in S THEN 0 ELSE regAt[c]]

Returned == { c \in Clients : hpc[c] = "done" }

\* The locals of one pass of the read loop (parsed_telemetry, payload,
\* current_clients_copy, the loop position) are not read after the pass.
RoundLocalsDead ==
  /\ parsed' = NoRecord
  /\ payload' = NoPayload
  /\ copy' = << >>
  /\ idx' = 1

\* lines 54-55, 64: top of the connection loop
CheckPort ==
  /\ rpc = "top"
  /\ rpc' = IF IsSentinel(port) THEN "sleep_nf" ELSE "open"
  /\ UNCHANGED << unitVars, port, ser_open, global_status, global_data, global_clients,
                  data_lock, packet_count, parsed, payload, copy, idx,
                  dead_clients, log_rows, rounds, waits, failed, known,
                  handlerVars, conn, sent >>

\* line 57: time.sleep(5)
SleepNotFound ==
  /\ rpc = "sleep_nf"
  /\ rpc' = "locate"
  /\ waits' = waits + 1
  /\ UNCHANGED << unitVars, port, ser_open, global_status, global_data, global_clients,
                  data_lock, packet_count, parsed, payload, copy, idx,
                  dead_clients, log_rows, rounds, failed, known,
                  handlerVars, conn, sent >>

\* lines 58-59, 62: port = find_arduino_port() or "NOT_FOUND"
Locate ==
  /\ rpc = "locate"
  /\ \E p \in Ports \cup {NOT_FOUND} :
       /\ port' = p
       /\ failed' = (p = NOT_FOUND)
       /\ known' = IF p = NOT_FOUND THEN known ELSE known \cup {p}
       /\ rpc' = IF p # NOT_FOUND THEN "port_lock" ELSE "top"
  /\ waits' = 0
  /\ UNCHANGED << unitVars, ser_open, global_status, global_data, global_clients,
                  data_lock, packet_count, parsed, payload, copy, idx,
                  dead_clients, log_rows, rounds, handlerVars, conn, sent >>

\* line 60: with data_lock
PortLock ==
  /\ rpc = "port_lock"
  /\ Acquire(READER)
  /\ rpc' = "port_set"
  /\ UNCHANGED << unitVars, port, ser_open, global_status, global_data, global_clients,
                  packet_count, parsed, payload, copy, idx, dead_clients,
                  log_rows, rounds, waits, failed, known, handlerVars, conn,
                  sent >>

\* lines 61-62: global_status["port"] = port; continue
PortSet ==
  /\ rpc = "port_set"
  /\ Release(READER)
  /\ global_status' = [global_status EXCEPT !.port = port]
  /\ rpc' = "top"
  /\ UNCHANGED << unitVars, port, ser_open, global_data, global_clients,
                  packet_count, parsed, payload, copy, idx, dead_clients,
                  log_rows, rounds, waits, failed, known, handlerVars, conn,
                  sent >>

\* line 67: serial.Serial(port, 115200, timeout=1) returns
OpenOk ==
  /\ rpc = "open"
  /\ ser_open' = TRUE
  /\ waits' = 0
  /\ failed' = FALSE
  /\ rpc' = "conn_lock"
  /\ UNCHANGED << unitVars, port, global_status, global_data, global_clients, data_lock,
                  packet_count, parsed, payload, copy, idx, dead_clients,
                  log_rows, rounds, known, handlerVars, conn, sent >>

\* lines 67, 131-133: serial.Serial raises SerialException
OpenSerialError ==
  /\ rpc = "open"
  /\ port' = NOT_FOUND
  /\ waits' = 0
  /\ failed' = TRUE
  /\ rpc' = "fin_lock"
  /\ UNCHANGED << unitVars, ser_open, global_status, global_data, global_clients,
                  data_lock, packet_count, parsed, payload, copy, idx,
                  dead_clients, log_rows, rounds, known, handlerVars, conn,
                  sent >>

\* lines 67, 134-135: serial.Serial raises another Exception; port is kept
OpenUnexpected ==
  /\ rpc = "open"
  /\ waits' = 0
  /\ failed' = TRUE
  /\ rpc' = "fin_lock"
  /\ UNCHANGED << unitVars, port, ser_open, global_status, global_data, global_clients,
                  data_lock, packet_count, parsed, payload, copy, idx,
                  dead_clients, log_rows, rounds, known, handlerVars, conn,
                  sent >>

\* line 69: with data_lock
ConnLock ==
  /\ rpc = "conn_lock"
  /\ Acquire(READER)
  /\ rpc' = "conn_set"
  /\ UNCHANGED << unitVars, port, ser_open, global_status, global_data, global_clients,
                  packet_count, parsed, payload, copy, idx, dead_clients,
                  log_rows, rounds, waits, failed, known, handlerVars, conn,
                  sent >>

\* line 70: global_status["arduino_connected"] = True
ConnSet ==
  /\ rpc = "conn_set"
  /\ Release(READER)
  /\ global_status' = [global_status EXCEPT !.arduino_connected = TRUE]
  /\ rpc' = "read"
  /\ UNCHANGED << unitVars, port, ser_open, global_data, global_clients,
                  packet_count, parsed, payload, copy, idx, dead_clients,
                  log_rows, rounds, waits, failed, known, handlerVars, conn,
                  sent >>

\* lines 74-83, 125-126: readline timed out, the line is empty, it does not
\* decode as UTF-8, or parser.parse returns None: back to readline
ReadNothing ==
  /\ rpc = "read"
  /\ UNCHANGED vars

\* lines 74-83: a frame is read and parser.parse returns a record
\* (telemetry_parser.py lines 86-89, 128-129: the record carries the counter
\* before the increment)
ReadRecord ==
  /\ rpc = "read"
  /\ packet_count < MaxRecords
  /\ parsed' = [rid |-> packet_count + 1, packet_count |-> packet_count]
  /\ packet_count' = packet_count + 1
  /\ rpc' = "log"
  /\ UNCHANGED << unitVars, port, ser_open, global_status, global_data, global_clients,
                  data_lock, payload, copy, idx, dead_clients, log_rows,
                  rounds, waits, failed, known, handlerVars, conn, sent >>

\* the stream left as it is when the read loop is left
LeftOpen(open) == open

\* line 124: `break` leaves the `with serial.Serial(...) as ser` block of line
\* 67, whose exit closes ser
ClosedByWith(open) == FALSE

\* lines 74, 121-124, then the `with` exit and line 137: readline raises
\* SerialException
ReadSerialError ==
  /\ rpc = "read"
  /\ port' = NOT_FOUND
  /\ ser_open' = ClosedByWith(ser_open)
  /\ failed' = TRUE
  /\ rpc' = "fin_lock"
  /\ UNCHANGED << unitVars, global_status, global_data, global_clients, data_lock,
                  packet_count, parsed, payload, copy, idx, dead_clients,
                  log_rows, rounds, waits, known, handlerVars, conn, sent >>

\* lines 85-86: the record is written unless its packet_count is 0
LogOk ==
  /\ rpc = "log"
  /\ log_rows' = IF parsed.packet_count > 0
                 THEN Append(log_rows, parsed.rid) ELSE log_rows
  /\ rpc' = "upd_lock"
  /\ UNCHANGED << unitVars, port, ser_open, global_status, global_data, global_clients,
                  data_lock, packet_count, parsed, payload, copy, idx,
                  dead_clients, rounds, waits, failed, known, handlerVars,
                  conn, sent >>

\* lines 86, 127-128: datalogger.write raises; `except Exception` takes it
LogRaises ==
  /\ rpc = "log"
  /\ parsed.packet_count > 0
  /\ rpc' = "sleep_err"
  /\ UNCHANGED << unitVars, port, ser_open, global_status, global_data, global_clients,
                  data_lock, packet_count, parsed, payload, copy, idx,
                  dead_clients, log_rows, rounds, waits, failed, known,
                  handlerVars, conn, sent >>

\* the connection given up after the pause
AfterPauseBreak == "fin_lock"

\* the handler of lines 127-129 is inside `while True` (line 72): after it
\* the loop goes on with the next readline
AfterPause == "read"

\* line 129: time.sleep(1), then the read loop goes on
SleepAfterError ==
  /\ rpc = "sleep_err"
  /\ rpc' = AfterPause
  /\ RoundLocalsDead
  /\ UNCHANGED << unitVars, port, ser_open, global_status, global_data, global_clients,
                  data_lock, packet_count, dead_clients, log_rows, rounds,
                  waits, failed, known, handlerVars, conn, sent >>

\* line 89: with data_lock
UpdateLock ==
  /\ rpc = "upd_lock"
  /\ Acquire(READER)
  /\ rpc' = "update"
  /\ UNCHANGED << unitVars, port, ser_open, global_status, global_data, global_clients,
                  packet_count, parsed, payload, copy, idx, dead_clients,
                  log_rows, rounds, waits, failed, known, handlerVars, conn,
                  sent >>

\* lines 90-101: global_data is updated and the envelope serialized
Update ==
  /\ rpc = "update"
  /\ Release(READER)
  /\ global_data' = parsed.rid
  /\ payload' = Envelope(global_status, parsed.rid)
  /\ rpc' = "copy_lock"
  /\ UNCHANGED << unitVars, port, ser_open, global_status, global_clients,
                  packet_count, parsed, copy, idx, dead_clients,
                  log_rows, rounds, waits, failed, known, handlerVars, conn,
                  sent >>

\* line 105: with data_lock
CopyLock ==
  /\ rpc = "copy_lock"
  /\ Acquire(READER)
  /\ rpc' = "copy"
  /\ UNCHANGED << unitVars, port, ser_open, global_status, global_data, global_clients,
                  packet_count, parsed, payload, copy, idx, dead_clients,
                  log_rows, rounds, waits, failed, known, handlerVars, conn,
                  sent >>

\* lines 106, 108: current_clients_copy = list(global_clients); dead_clients = []
CopyClients ==
  /\ rpc = "copy"
  /\ Release(READER)
  /\ copy' = global_clients
  /\ idx' = 1
  /\ dead_clients' = << >>
  /\ rpc' = "send"
  /\ UNCHANGED << unitVars, port, ser_open, global_status, global_data, global_clients,
                  packet_count, parsed, payload, log_rows, rounds, waits,
                  failed, known, handlerVars, conn, sent >>

\* lines 109-111: client.send(payload) returns
SendOk ==
  /\ rpc = "send"
  /\ idx <= Len(copy)
  /\ conn[copy[idx]] = "ok"
  /\ sent' = [sent EXCEPT ![copy[idx]] =
                Append(@, [kind |-> "bcast", env |-> payload, ok |-> TRUE])]
  /\ idx' = idx + 1
  /\ UNCHANGED << unitVars, port, rpc, ser_open, global_status, global_data,
                  global_clients, data_lock, packet_count, parsed, payload,
                  copy, dead_clients, log_rows, rounds, waits, failed, known,
                  handlerVars, conn >>

\* lines 111-113: client.send(payload) raises
SendFails ==
  /\ rpc = "send"
  /\ idx <= Len(copy)
  /\ conn[copy[idx]] = "broken"
  /\ sent' = [sent EXCEPT ![copy[idx]] =
                Append(@, [kind |-> "bcast", env |-> payload, ok |-> FALSE])]
  /\ dead_clients' = Append(dead_clients, copy[idx])
  /\ idx' = NextAfterFailure(idx, Len(copy))
  /\ UNCHANGED << unitVars, port, rpc, ser_open, global_status, global_data,
                  global_clients, data_lock, packet_count, parsed, payload,
                  copy, log_rows, rounds, waits, failed, known,
                  handlerVars, conn >>

\* line 115: the loop is over; `if dead_clients`
SendDone ==
  /\ rpc = "send"
  /\ idx > Len(copy)
  /\ IF dead_clients # << >>
     THEN /\ rpc' = "rm_lock"
          /\ UNCHANGED << rounds, parsed, payload, copy, idx >>
          /\ UNCHANGED << handlerVars, conn, sent >>
     ELSE /\ rpc' = "read"
          /\ rounds' = Append(rounds, parsed.rid)
          /\ RoundLocalsDead
          /\ Gone(Returned)
  /\ UNCHANGED << unitVars, port, ser_open, global_status, global_data, global_clients,
                  data_lock, packet_count, dead_clients, log_rows, waits,
                  failed, known >>

\* line 116: with data_lock
RemoveLock ==
  /\ rpc = "rm_lock"
  /\ Acquire(READER)
  /\ rpc' = "remove"
  /\ UNCHANGED << unitVars, port, ser_open, global_status, global_data, global_clients,
                  packet_count, parsed, payload, copy, idx, dead_clients,
                  log_rows, rounds, waits, failed, known, handlerVars, conn,
                  sent >>

\* lines 117-119: the dead clients are removed
RemoveDead ==
  /\ rpc = "remove"
  /\ Release(READER)
  /\ global_clients' = Pruned(global_clients, dead_clients)
  /\ rounds' = Append(rounds, parsed.rid)
  /\ rpc' = "read"
  /\ RoundLocalsDead
  /\ dead_clients' = << >>
  /\ Gone(Returned)
  /\ UNCHANGED << unitVars, port, ser_open, global_status, global_data,
                  packet_count, log_rows, waits, failed, known >>

\* lines 136-139: finally: ser is closed already or None; with data_lock
FinallyLock ==
  /\ rpc = "fin_lock"
  /\ Acquire(READER)
  /\ ser_open' = FALSE
  /\ rpc' = "fin_set"
  /\ UNCHANGED << unitVars, port, global_status, global_data, global_clients,
                  packet_count, parsed, payload, copy, idx, dead_clients,
                  log_rows, rounds, waits, failed, known, handlerVars, conn,
                  sent >>

\* line 140: global_status["arduino_connected"] = False
FinallySet ==
  /\ rpc = "fin_set"
  /\ Release(READER)
  /\ global_status' = Disconnected(global_status)
  /\ rpc' = "fin_sleep"
  /\ UNCHANGED << unitVars, port, ser_open, global_data, global_clients,
                  packet_count, parsed, payload, copy, idx, dead_clients,
                  log_rows, rounds, waits, failed, known, handlerVars, conn,
                  sent >>

\* line 142: time.sleep(5), then the connection loop starts over
FinallySleep ==
  /\ rpc = "fin_sleep"
  /\ waits' = waits + 1
  /\ rpc' = AfterBackoff
  /\ UNCHANGED << unitVars, port, ser_open, global_status, global_data, global_clients,
                  data_lock, packet_count, parsed, payload, copy, idx,
                  dead_clients, log_rows, rounds, failed, known, handlerVars,
                  conn, sent >>

ReaderNext ==
  \/ CheckPort \/ SleepNotFound \/ Locate \/ PortLock \/ PortSet
  \/ OpenOk \/ OpenSerialError \/ OpenUnexpected \/ ConnLock \/ ConnSet
  \/ ReadNothing \/ ReadRecord \/ ReadSerialError
  \/ LogOk \/ LogRaises \/ SleepAfterError
  \/ UpdateLock \/ Update \/ CopyLock \/ CopyClients
  \/ SendOk \/ SendFails \/ SendDone \/ RemoveLock \/ RemoveDead
  \/ FinallyLock \/ FinallySet \/ FinallySleep

\* ------------------------------------------------------------------ ws
\* the handler going to receive without the snapshot send
SkipSnapshotSend == "receive"

\* lines 161-171: after the snapshot is serialized, ws.send(payload) is called
AfterSnapshot == "snap_send"

\* a client connects to /ws: flask_sock starts ws(ws) in a thread of its own
Connect(c) ==
  /\ hpc[c] = "idle"
  /\ hpc' = [hpc EXCEPT ![c] = "reg_lock"]
  /\ UNCHANGED << unitVars, port, rpc, ser_open, global_status, global_data,
                  global_clients, data_lock, packet_count, parsed, payload,
                  copy, idx, dead_clients, log_rows, rounds, waits, failed,
                  known, hpayload, regAt, conn, sent >>

\* line 158: with data_lock
RegisterLock(c) ==
  /\ hpc[c] = "reg_lock"
  /\ Acquire(c)
  /\ hpc' = [hpc EXCEPT ![c] = "register"]
  /\ UNCHANGED << unitVars, port, rpc, ser_open, global_status, global_data,
                  global_clients, packet_count, parsed, payload,
                  copy, idx, dead_clients, log_rows, rounds, waits, failed,
                  known, hpayload, regAt, conn, sent >>

\* line 159: global_clients.append(ws)
Register(c) ==
  /\ hpc[c] = "register"
  /\ Release(c)
  /\ global_clients' = Append(global_clients, c)
  /\ regAt' = [regAt EXCEPT ![c] = packet_count]
  /\ hpc' = [hpc EXCEPT ![c] = "snap_lock"]
  /\ UNCHANGED << unitVars, port, rpc, ser_open, global_status, global_data,
                  packet_count, parsed, payload,
                  copy, idx, dead_clients, log_rows, rounds, waits, failed,
                  known, hpayload, conn, sent >>

\* line 163: with data_lock
SnapshotLock(c) ==
  /\ hpc[c] = "snap_lock"
  /\ Acquire(c)
  /\ hpc' = [hpc EXCEPT ![c] = "snapshot"]
  /\ UNCHANGED << unitVars, port, rpc, ser_open, global_status, global_data,
                  global_clients, packet_count, parsed, payload,
                  copy, idx, dead_clients, log_rows, rounds, waits, failed,
                  known, hpayload, regAt, conn, sent >>

\* lines 164-168: payload = json.dumps(...) of the current status and data
Snapshot(c) ==
  /\ hpc[c] = "snapshot"
  /\ Release(c)
  /\ hpayload' = [hpayload EXCEPT ![c] = Envelope(global_status, global_data)]
  /\ hpc' = [hpc EXCEPT ![c] = AfterSnapshot]
  /\ UNCHANGED << unitVars, port, rpc, ser_open, global_status, global_data,
                  global_clients, packet_count, parsed, payload,
                  copy, idx, dead_clients, log_rows, rounds, waits, failed,
                  known, regAt, conn, sent >>

\* line 169: ws.send(payload) returns
SnapshotSendOk(c) ==
  /\ hpc[c] = "snap_send"
  /\ conn[c] = "ok"
  /\ sent' = [sent EXCEPT ![c] =
                Append(@, [kind |-> "snap", env |-> hpayload[c], ok |-> TRUE])]
  /\ hpc' = [hpc EXCEPT ![c] = "receive"]
  /\ UNCHANGED << unitVars, port, rpc, ser_open, global_status, global_data,
                  global_clients, data_lock, packet_count, parsed, payload,
                  copy, idx, dead_clients, log_rows, rounds, waits, failed,
                  known, hpayload, regAt, conn >>

\* lines 169-170: ws.send(payload) raises; `except Exception: pass`
SnapshotSendFails(c) ==
  /\ hpc[c] = "snap_send"
  /\ conn[c] = "broken"
  /\ sent' = [sent EXCEPT ![c] =
                Append(@, [kind |-> "snap", env |-> hpayload[c], ok |-> FALSE])]
  /\ hpc' = [hpc EXCEPT ![c] = "receive"]
  /\ UNCHANGED << unitVars, port, rpc, ser_open, global_status, global_data,
                  global_clients, data_lock, packet_count, parsed, payload,
                  copy, idx, dead_clients, log_rows, rounds, waits, failed,
                  known, hpayload, regAt, conn >>

\* lines 172-176: ws.receive(timeout=None) returns None or raises once the
\* remote end is gone; until then the handler blocks in it
ReceiveEnds(c) ==
  /\ hpc[c] = "receive"
  /\ conn[c] = "broken"
  /\ hpc' = [hpc EXCEPT ![c] = "dereg_lock"]
  /\ UNCHANGED << unitVars, port, rpc, ser_open, global_status, global_data,
                  global_clients, data_lock, packet_count, parsed, payload,
                  copy, idx, dead_clients, log_rows, rounds, waits, failed,
                  known, hpayload, regAt, conn, sent >>

\* line 177: with data_lock
DeregisterLock(c) ==
  /\ hpc[c] = "dereg_lock"
  /\ Acquire(c)
  /\ hpc' = [hpc EXCEPT ![c] = "deregister"]
  /\ UNCHANGED << unitVars, port, rpc, ser_open, global_status, global_data,
                  global_clients, packet_count, parsed, payload,
                  copy, idx, dead_clients, log_rows, rounds, waits, failed,
                  known, hpayload, regAt, conn, sent >>

\* line 178: if ws in global_clients: global_clients.remove(ws)
Deregister(c) ==
  /\ hpc[c] = "deregister"
  /\ Release(c)
  /\ global_clients' = RemoveFirst(global_clients, c)
  /\ IF c \in Range(copy)
     THEN /\ hpc' = [hpc EXCEPT ![c] = "done"]
          /\ UNCHANGED << hpayload, regAt, conn, sent >>
     ELSE Gone({c})
  /\ UNCHANGED << unitVars, port, rpc, ser_open, global_status, global_data,
                  packet_count, parsed, payload,
                  copy, idx, dead_clients, log_rows, rounds, waits, failed,
                  known >>

HandlerNext(c) ==
  \/ Connect(c) \/ RegisterLock(c) \/ Register(c)
  \/ SnapshotLock(c) \/ Snapshot(c)
  \/ SnapshotSendOk(c) \/ SnapshotSendFails(c)
  \/ ReceiveEnds(c) \/ DeregisterLock(c) \/ Deregister(c)

\* ------------------------------------------- the subscribers' transports
\* The state of a transport is read only by a send to it and by the handler's
\* receive, so it changes only when one of the two is being called.

\* the remote end stops reading: a send to it does not return
SendPending(c) ==
  \/ hpc[c] = "snap_send"
  \/ rpc = "send" /\ idx <= Len(copy) /\ copy[idx] = c

Stall(c) ==
  /\ SendPending(c)
  /\ conn[c] = "ok"
  /\ conn' = [conn EXCEPT ![c] = "stalled"]
  /\ UNCHANGED << unitVars, port, rpc, ser_open, global_status, global_data,
                  global_clients, data_lock, packet_count, parsed, payload,
                  copy, idx, dead_clients, log_rows, rounds, waits, failed,
                  known, hpc, hpayload, regAt, sent >>

\* the remote end reads again
Resume(c) ==
  /\ conn[c] = "stalled"
  /\ conn' = [conn EXCEPT ![c] = "ok"]
  /\ UNCHANGED << unitVars, port, rpc, ser_open, global_status, global_data,
                  global_clients, data_lock, packet_count, parsed, payload,
                  copy, idx, dead_clients, log_rows, rounds, waits, failed,
                  known, hpc, hpayload, regAt, sent >>

\* the remote end closes or the connection is lost: sends raise, receive ends
Break(c) ==
  /\ SendPending(c) \/ hpc[c] = "receive"
  /\ conn[c] \in {"ok", "stalled"}
  /\ conn' = [conn EXCEPT ![c] = "broken"]
  /\ UNCHANGED << unitVars, port, rpc, ser_open, global_status, global_data,
                  global_clients, data_lock, packet_count, parsed, payload,
                  copy, idx, dead_clients, log_rows, rounds, waits, failed,
                  known, hpc, hpayload, regAt, sent >>

TransportNext(c) == Stall(c) \/ Resume(c) \/ Break(c)

\* ====================================================== TelemetryParser
\* src/gds/telemetry_parser.py.  A line is the list of its comma-separated
\* fields after strip(); a field is a token; a float is a count of units of
\* 10^-7, so that round(x, 6) is something a value can lose a digit to.
MaxParsed == 3
MaxFields == 20

\* len(DATA_LABELS)
SchemaLength == 18
\* 1.0, in units of 10^-7
One == 10000000

\* line 96: if label in ["GPS Fix", "GPS Sats"]
IntegerLabels == {11, 12}

\* rounding_map (lines 108-117): the decimals kept, by position of the label
RoundingMap ==
  [i \in {4, 5, 9, 10, 13, 14, 15, 17} |->
     CASE i \in {13, 14} -> 6
       [] i = 17 -> 3
       [] OTHER -> 2]

\* ---- tokens: what float() makes of a field
\* "num": a finite decimal number; "inf", "nan": the words float() reads as
\* such ("inf", "1e999", "nan"); "text": anything float() refuses, v telling
\* which: 0 the empty string, 1 some other text, 2 the waiting-for-fix text
Num(v) == [k |-> "num", v |-> v]
InfTok == [k |-> "inf", v |-> 1]
NanTok == [k |-> "nan", v |-> 0]
EmptyTok == [k |-> "text", v |-> 0]
GarbageTok == [k |-> "text", v |-> 1]
WaitingTok == [k |-> "text", v |-> 2]

\* ---- Python values
FloatOf(v) == [t |-> "float", k |-> "fin", v |-> v]
FloatInf == [t |-> "float", k |-> "inf", v |-> 1]
FloatNan == [t |-> "float", k |-> "nan", v |-> 0]
IntOf(v) == [t |-> "int", k |-> "fin", v |-> v]

Returns(x) == [exc |-> "", val |-> x]
Raises(e) == [exc |-> e, val |-> FloatOf(0)]

\* float(s)
ToFloat(tok) ==
  CASE tok.k = "num" -> Returns(FloatOf(tok.v))
    [] tok.k = "inf" -> Returns(FloatInf)
    [] tok.k = "nan" -> Returns(FloatNan)
    [] OTHER -> Raises("ValueError")

\* the integer below: -1.5 gives -2
ToIntFloor(x) ==
  CASE x.k = "nan" -> Raises("ValueError")
    [] x.k = "inf" -> Raises("OverflowError")
    [] OTHER -> Returns(IntOf((x.v \div One) * One))

\* int(x) of a float: truncation toward zero; nan and inf have no integer
ToInt(x) ==
  CASE x.k = "nan" -> Raises("ValueError")
    [] x.k = "inf" -> Raises("OverflowError")
    [] OTHER -> Returns(IntOf(IF x.v >= 0 THEN (x.v \div One) * One
                                         ELSE -(((-x.v) \div One) * One)))

\* round(x, prec) of a float: the nearest multiple of 10^-prec.  Python
\* decides a tie on the double's binary value; the lines of the model hold
\* no value that lies halfway (a tie here goes to the even multiple).
RoundNat(n, q) ==
  LET lo == (n \div q) * q
      r == n % q
  IN  IF 2 * r < q THEN lo
      ELSE IF 2 * r > q THEN lo + q
      ELSE IF (n \div q) % 2 = 0 THEN lo ELSE lo + q

Round(x, prec) ==
  IF x.k # "fin" THEN x
  ELSE LET q == 10 ^ (7 - prec)
       IN  FloatOf(IF x.v >= 0 THEN RoundNat(x.v, q) ELSE -RoundNat(-x.v, q))

\* the field after the one of the label's position
NextPosition(i) == (i % SchemaLength) + 1

\* line 92: for i, label in enumerate(self.DATA_LABELS): values[i]
Position(i) == i

\* no exception of a field taken there
InnerCaughtNone(exc) == FALSE

\* line 102: except (ValueError, IndexError)
InnerCaught(exc) == exc \in {"ValueError", "IndexError"}

\* the outer handler taking ValueError only
OuterCaughtValueError(exc) == exc = "ValueError"

\* line 131: except Exception
OuterCaught(exc) == TRUE

\* a line with fields to spare taken too
CountAtLeast(n) == n >= SchemaLength

\* line 81: len(values) != len(self.DATA_LABELS) is a rejection
CountOk(n) == n = SchemaLength

\* the counter left where it is
NotIncremented(pc) == pc

\* line 128: self.packet_count += 1
Incremented(pc) == pc + 1

\* every value let through
AlwaysInRange(x, lo, hi) == TRUE

\* line 159: min_val <= value <= max_val (false of nan, and of inf above max)
InRange(x, lo, hi) == x.k = "fin" /\ lo <= x.v /\ x.v <= hi

\* lines 94-101: values[i] converted for the label at position i
ConvertField(i, values) ==
  IF Position(i) > Len(values) THEN Raises("IndexError")
  ELSE LET f == ToFloat(values[Position(i)])
       IN  IF f.exc # "" THEN f
           ELSE IF i \in IntegerLabels THEN ToInt(f.val)
           ELSE f

\* lines 94-104: the conversion in its try; a caught failure leaves 0.0
FieldValue(i, values) ==
  LET r == ConvertField(i, values)
  IN  IF r.exc # "" /\ InnerCaught(r.exc) THEN Returns(FloatOf(0)) ELSE r

\* the value kept with all its decimals
NotRounded(i, x) == x

\* lines 118-120: rounding of the float values the rounding_map names
Rounded(i, x) ==
  IF i \in DOMAIN RoundingMap /\ x.t = "float" THEN Round(x, RoundingMap[i]) ELSE x

\* key_map read backwards: the position of the label a key comes from
LabelOf == [key \in Keys |-> CHOOSE i \in 1..SchemaLength : KeyMap[i] = key]

\* lines 91-120: the channels of the telemetry dictionary, from the values of
\* the fields by position
Channels(fv) ==
  [key \in Keys |-> Rounded(LabelOf[key], fv[LabelOf[key]].val)]

\* _validate_ranges (lines 135-167), ranges keyed by normalized key
ValidateRanges(ch, ranges) ==
  \A field \in DOMAIN ranges :
    InRange(ch[field], ranges[field][1], ranges[field][2])

NoneReturned == [out |-> "none", packet_count |-> -1, ch |-> << >>]
Raised == [out |-> "raised", packet_count |-> -1, ch |-> << >>]

Least(S) == CHOOSE i \in S : \A j \in S : i <= j

\* parse (lines 53-133) of a str, but for the counter: "record" with the
\* channels of the dictionary, "none" for None, "raised" if it raises
Decode(config, values) ==
  IF values = << EmptyTok >>
  THEN [out |-> "none", ch |-> << >>]                          \* lines 73-74
  ELSE IF ~CountOk(Len(values))
  THEN [out |-> "none", ch |-> << >>]                          \* lines 81-83
  ELSE
    LET fv == [i \in 1..SchemaLength |-> FieldValue(i, values)]
        \* the labels whose conversion raises what line 102 does not take:
        \* the loop is left at the first of them
        escaping == { i \in 1..SchemaLength : fv[i].exc # "" }
        ch == Channels(fv)
    IN  IF escaping # {}
        THEN [out |-> IF OuterCaught(fv[Least(escaping)].exc)
                      THEN "none" ELSE "raised",               \* lines 131-133
              ch |-> << >>]
        ELSE IF config.enable_range_check /\ ~ValidateRanges(ch, config.ranges)
        THEN [out |-> "none", ch |-> << >>]                    \* lines 123-126
        ELSE [out |-> "record", ch |-> ch]                     \* line 129

\* ---- the lines and the configurations parse is called with
Base(i) == Num(i * One)
BaseLine(n) == [i \in 1..n |-> Base(i)]

Tokens ==
  { Num(0), Num(376789012), Num(-31234567), InfTok, NanTok,
    EmptyTok, GarbageTok, WaitingTok }

\* a line with the same number of seven decimals in every field of a channel
\* the rounding_map names
Fractions(v) ==
  [i \in 1..SchemaLength |-> IF i \in DOMAIN RoundingMap THEN Num(v) ELSE Base(i)]

Lines ==
  { << EmptyTok >>, Fractions(376789012), Fractions(-31234567) }
    \cup { BaseLine(n) : n \in 1..MaxFields }
    \cup { [BaseLine(SchemaLength) EXCEPT ![p] = t] :
             p \in 1..SchemaLength, t \in Tokens }
    \cup { [BaseLine(SchemaLength) EXCEPT ![p] = t, ![p + 1] = u] :
             p \in 1..(SchemaLength - 1),
             t \in {GarbageTok, InfTok}, u \in {GarbageTok, Num(376789012)} }
    \cup { [BaseLine(SchemaLength - 1) EXCEPT ![p] = t] :
             p \in 1..(SchemaLength - 1), t \in {GarbageTok, Num(-31234567)} }
    \cup { [i \in 1..SchemaLength |-> GarbageTok] }
    \cup { << WaitingTok >>, << WaitingTok, Num(-95 * One) >>,
           << WaitingTok, GarbageTok >> }

NoRanges == [field \in {} |-> << 0, 0 >>]
SomeRanges ==
  [field \in {"altitude", "pressure_pa"} |->
     IF field = "altitude" THEN << -10 * One, 10 * One >> ELSE << One, 20 * One >>]

Configs ==
  { [enable_range_check |-> e, ranges |-> r] :
      e \in BOOLEAN, r \in {NoRanges, SomeRanges} }

\* Decode on every line and configuration of the model
Decoded == [config \in Configs |-> [values \in Lines |-> Decode(config, values)]]

\* ---- the parser taken alone: one parser object, parse called line after line
ParserInit ==
  /\ ThreadsAtRest
  /\ LoggerAtRest
  /\ MainAtRun
  /\ packet_count = 0                        \* line 36
  /\ parser_config \in Configs               \* line 35
  /\ raw_data = << >>
  /\ ret = NoCall
  /\ accepted = << >>

\* parser.parse(line): the dictionary carries the counter as it was (line 88)
\* and the counter moves when a dictionary is returned (line 128)
Parse(line) ==
  /\ raw_data' = line
  /\ IF Decoded[parser_config][line].out = "record"
     THEN /\ ret' = [out |-> "record", packet_count |-> packet_count,
                     ch |-> Decoded[parser_config][line].ch]
          /\ packet_count' = Incremented(packet_count)
          /\ accepted' = Append(accepted, packet_count)
     ELSE /\ ret' = IF Decoded[parser_config][line].out = "raised"
                    THEN Raised ELSE NoneReturned
          /\ UNCHANGED << packet_count, accepted >>
  /\ UNCHANGED parser_config

ParseCall ==
  /\ packet_count < MaxParsed
  /\ \E line \in Lines : Parse(line)
  /\ UNCHANGED << threadVars, loggerVars, frame, mainVars, data_values >>

ParserNext == ParseCall

ParserSpec == ParserInit /\ [][ParserNext]_vars

\* =========================================================== DataLogger
\* src/gds/data_logger.py.  A telemetry dictionary is a function from its keys
\* to Python values; a line of the file is the header or a row of cells by
\* field name (the order of the columns, the dictionary's order of insertion,
\* is left out).  The storage takes every write and flush of an open file: a
\* failing disk is LogRaises in the ingestion thread.
MaxWrites == 3
MaxBuffer == 3

\* the dictionaries write is called with: two of one key set, one with a key
\* more, one with a key less
Rows ==
  { [key \in {"altitude", "gps_fix"} |->
       IF key = "altitude" THEN FloatOf(376789012) ELSE IntOf(One)],
    [key \in {"altitude", "gps_fix"} |->
       IF key = "altitude" THEN FloatOf(-31234567) ELSE FloatOf(0)],
    [key \in {"altitude", "gps_fix", "sys_status"} |->
       CASE key = "altitude" -> FloatOf(One)
         [] key = "gps_fix" -> IntOf(0)
         [] OTHER -> Str("waiting")],
    [key \in {"altitude"} |-> FloatOf(2 * One)] }

\* the config dictionaries: buffer_size (line 92), csv.include_header (line
\* 66), csv.float_precision (line 98)
LoggerConfigs ==
  { [buffer_size |-> k, include_header |-> h, float_precision |-> p] :
      k \in 0..MaxBuffer, h \in BOOLEAN, p \in {2, 6} }

\* the flush due after the first write of each interval
FlushDueFirst(n, k) == n % k = 1 % k

\* line 93: self._write_count % flush_interval == 0
FlushDue(n, k) == n % k = 0

\* what flush() and write() of a file object need: the file is not closed
\* (a closed file raises ValueError; `if self.csv_file` is true of it)
IsOpen(file) == file = "open"

\* _format_floats (lines 96-107)
FormatFloats(data, precision) ==
  [key \in DOMAIN data |->
     IF data[key].t = "float" THEN Round(data[key], precision) ELSE data[key]]

\* csv.DictWriter.writeheader: the field names
HeaderLine(fieldnames) ==
  [kind |-> "header", cells |-> [f \in fieldnames |-> Str(f)]]

\* csv.DictWriter.writerow: a cell for each field name, '' for a missing key
RowLine(fieldnames, data) ==
  [kind |-> "row",
   cells |-> [f \in fieldnames |-> IF f \in DOMAIN data THEN data[f] ELSE Str("")]]

\* __init__ (lines 18-36), _initialize_file (lines 38-49)
Opened(configs) ==
  /\ logger_config \in configs
  /\ csv_file = "open"
  /\ csv_writer = NoWriter
  /\ write_count = 0
  /\ file_rows = << >>
  /\ flushed = 0
  /\ lret = "nocall"
  /\ flushed_after = {}
  /\ written = << >>

\* the logger taken alone: one DataLogger, its methods called in any order
LoggerInit ==
  /\ ThreadsAtRest
  /\ ParserAtRest
  /\ MainAtRun
  /\ packet_count = 0
  /\ Opened(LoggerConfigs)

\* a writer made anew by every write
WriterNeverKept(writer) == TRUE

\* line 63: self.csv_writer is None
WriterIsNone(writer) == ~writer.made

\* write (lines 51-58), _write_csv (lines 60-94), of a dictionary
Write(telemetry) ==
  LET first == WriterIsNone(csv_writer)
      fieldnames == IF first THEN DOMAIN telemetry ELSE csv_writer.fieldnames
      header == first /\ logger_config.include_header
      headed == IF header THEN Append(file_rows, HeaderLine(fieldnames))
                ELSE file_rows
      formatted == FormatFloats(telemetry, logger_config.float_precision)
      n == write_count + 1
  IN  /\ csv_writer' = [made |-> TRUE, fieldnames |-> fieldnames]  \* lines 67, 74
      /\ IF header /\ ~IsOpen(csv_file)
         THEN \* line 72: writeheader raises ValueError
              /\ lret' = "write_raised"
              /\ UNCHANGED << write_count, file_rows, flushed, flushed_after,
                              written >>
         ELSE IF ~(DOMAIN telemetry \subseteq fieldnames) \/ ~IsOpen(csv_file)
         THEN \* line 84: writerow raises ValueError (a key that is no
              \* field name, or the file is closed)
              /\ lret' = "write_raised"
              /\ file_rows' = headed
              /\ UNCHANGED << write_count, flushed, flushed_after, written >>
         ELSE /\ file_rows' = Append(headed, RowLine(fieldnames, formatted))
              /\ written' = Append(written, telemetry)
              /\ write_count' = n                                  \* lines 87-90
              /\ IF logger_config.buffer_size = 0
                 THEN \* line 93: ZeroDivisionError
                      /\ lret' = "write_raised"
                      /\ UNCHANGED << flushed, flushed_after >>
                 ELSE IF FlushDue(n, logger_config.buffer_size)
                 THEN /\ lret' = "write_ok"
                      /\ flushed' = Len(file_rows')                \* line 94
                      /\ flushed_after' = flushed_after \cup {n}
                 ELSE /\ lret' = "write_ok"
                      /\ UNCHANGED << flushed, flushed_after >>
      /\ UNCHANGED << logger_config, csv_file >>

\* what the calls of the logger taken alone leave as it is
besideLogger == << threadVars, packet_count, parserVars, frame, mainVars,
                  data_values >>

\* datalogger.write(telemetry)
WriteCall ==
  /\ write_count < MaxWrites
  /\ \E telemetry \in Rows : Write(telemetry)
  /\ UNCHANGED besideLogger

\* flush (lines 109-112)
FlushCall ==
  /\ IF IsOpen(csv_file)
     THEN lret' = "flush_ok" /\ flushed' = Len(file_rows)
     ELSE lret' = "flush_raised" /\ UNCHANGED flushed
  /\ UNCHANGED << besideLogger, logger_config, csv_file, csv_writer,
                  write_count, file_rows, flushed_after, written >>

\* close without its flush
CloseNoFlush(done, rows) == done

\* line 119: self.csv_file.flush(), of the file that close is about to close
CloseFlush(done, rows) == Len(rows)

\* close (lines 114-122)
Close ==
  /\ IF IsOpen(csv_file)
     THEN /\ flushed' = CloseFlush(flushed, file_rows)             \* line 119
          /\ csv_file' = "closed"                                  \* line 120
          /\ lret' = "close_ok"
     ELSE \* line 119: flush() of the closed file raises ValueError
          /\ lret' = "close_raised"
          /\ UNCHANGED << flushed, csv_file >>
  /\ UNCHANGED << logger_config, csv_writer, write_count, file_rows,
                  flushed_after, written >>

\* datalogger.close()
CloseCall == Close /\ UNCHANGED besideLogger

LoggerNext == WriteCall \/ FlushCall \/ CloseCall

LoggerSpec == LoggerInit /\ [][LoggerNext]_vars

\* ============================================== the read loop in full
\* serial_reader_thread's read loop (slugsight_gds.py lines 72-129) with the
\* parser and the logger it calls in place of ReadNothing, ReadRecord and
\* LogOk: readline gives nothing, a blank line, bytes that do not decode, or
\* a line; the line goes through parse, the record through write.

\* the dictionary parse returns (telemetry_parser.py lines 86-89, 129), but
\* for its timestamp
Telemetry(r) ==
  [key \in Keys \cup {"packet_count"} |->
     IF key = "packet_count" THEN IntOf(r.packet_count * One) ELSE r.ch[key]]

\* the lines readline gives: the line of whole numbers, the lines with
\* numbers of seven decimals in the fields of the channels the rounding_map
\* names, a line with one field of text, a line of 17 fields and a line with
\* an infinite gps_fix
IngestLines ==
  { BaseLine(SchemaLength), BaseLine(SchemaLength - 1),
    Fractions(376789012), Fractions(-31234567),
    [BaseLine(SchemaLength) EXCEPT ![4] = GarbageTok],
    [BaseLine(SchemaLength) EXCEPT ![11] = InfTok] }

\* the configurations of the logger in the read loop: the header as both
\* scripts ask for it; a flush after every write (advanced_web_gui.py line
\* 1190) or after more writes than a run of the model makes (the default of
\* 10, slugsight_gds.py lines 185-188)
IngestLoggerConfigs ==
  { c \in LoggerConfigs : c.include_header /\ c.buffer_size \in {1, MaxBuffer} }

\* __main__ (lines 183-188) and the start of the thread (lines 200-203)
IngestInit ==
  /\ ThreadsInit
  /\ ParserAtRest
  /\ Opened(IngestLoggerConfigs)
  /\ MainAtRun

\* the connection given up when a frame is skipped
BreakOut == "fin_lock"

\* lines 75, 78, 83: continue; line 126: pass
Continue == "read"

\* lines 74-78, 125-126: readline times out (b''), gives a line that strip
\* leaves empty, or bytes that decode raises UnicodeDecodeError for
ReadSkip ==
  /\ rpc = "read"
  /\ \E kind \in {"timeout", "blank", "undecodable"} : frame' = kind
  /\ rpc' = Continue
  /\ UNCHANGED << parserVars, loggerVars, mainVars, data_values, port,
                  ser_open, global_status, global_data, global_clients, data_lock,
                  packet_count, parsed, payload, copy, idx, dead_clients,
                  log_rows, rounds, waits, failed, known, handlerVars, conn,
                  sent >>

\* lines 74-83: a line is read and parsed; None is skipped
ReadLine ==
  /\ rpc = "read"
  /\ frame' = "line"
  /\ \E line \in IngestLines :
       /\ Decoded[parser_config][line].out = "record"
            => packet_count < MaxRecords
       /\ Parse(line)
  /\ IF ret'.out = "record"
     THEN /\ parsed' = [rid |-> packet_count + 1, packet_count |-> ret'.packet_count]
          /\ rpc' = "log"
     ELSE /\ rpc' = Continue
          /\ UNCHANGED parsed
  /\ UNCHANGED << loggerVars, mainVars, data_values, port, ser_open,
                  global_status,
                  global_data, global_clients, data_lock, payload, copy, idx,
                  dead_clients, log_rows, rounds, waits, failed, known,
                  handlerVars, conn, sent >>

\* lines 85-86, 127-128: the record is written unless its packet_count is 0;
\* what write raises is taken by `except Exception`
LogWrite ==
  /\ rpc = "log"
  /\ IF parsed.packet_count > 0
     THEN /\ Write(Telemetry(ret))
          /\ log_rows' = IF lret' = "write_ok"
                         THEN Append(log_rows, parsed.rid) ELSE log_rows
          /\ rpc' = IF lret' = "write_ok" THEN "upd_lock" ELSE "sleep_err"
     ELSE /\ rpc' = "upd_lock"
          /\ UNCHANGED << loggerVars, log_rows >>
  /\ UNCHANGED << parserVars, frame, mainVars, data_values, port, ser_open,
                  global_status,
                  global_data, global_clients, data_lock, packet_count,
                  parsed, payload, copy, idx, dead_clients, rounds, waits,
                  failed, known, handlerVars, conn, sent >>

\* line 95: str(value)
NotStringified(x) == x

Stringified(x) == [t |-> "str", k |-> x.k, v |-> x.v]

\* lines 90-97: every key of the record that reverse_key_map knows is stored
\* as a string under its label (packet_count and timestamp are not labels),
\* then sys_status, which the parser never gives, at its default
Stored(data, telemetry) ==
  [k \in DOMAIN data \cup (DOMAIN telemetry \cap Keys) \cup {"sys_status"} |->
     IF k = "sys_status" THEN Str("active")
     ELSE IF k \in DOMAIN telemetry \cap Keys THEN Stringified(telemetry[k])
     ELSE data[k]]

\* lines 88-101 with the record parse returned: the store takes the record,
\* the envelope is serialized, the lock is released
StoreUpdate ==
  /\ rpc = "update"
  /\ Release(READER)
  /\ data_values' = Stored(data_values, Telemetry(ret))
  /\ global_data' = parsed.rid
  /\ payload' = Envelope(global_status, parsed.rid)
  /\ rpc' = "copy_lock"
  /\ UNCHANGED << parserVars, loggerVars, frame, mainVars, port, ser_open,
                  global_status, global_clients, packet_count, parsed, copy,
                  idx, dead_clients, log_rows, rounds, waits, failed, known,
                  handlerVars, conn, sent >>

IngestNext ==
  \/ CheckPort \/ SleepNotFound \/ Locate \/ PortLock \/ PortSet
  \/ OpenOk \/ ConnLock \/ ConnSet
  \/ ReadSkip \/ ReadLine
  \/ LogWrite \/ LogRaises \/ SleepAfterError
  \/ UpdateLock \/ StoreUpdate \/ CopyLock \/ CopyClients
  \/ SendOk \/ SendFails \/ SendDone \/ RemoveLock \/ RemoveDead
  \/ HandlerNext(1)
  \/ TransportNext(1)

\* The read loop with its parser and its logger and one subscriber connection
\* at a time, while the serial link, once opened, stays up.
IngestSpec == IngestInit /\ [][IngestNext]_vars

\* ================================================ __main__ at shutdown
\* slugsight_gds.py lines 208-212 and advanced_web_gui.py lines 1226-1236:
\* app.run serves while the ingestion thread, a daemon, writes to the logger;
\* app.run ends by a KeyboardInterrupt, by returning or by another exception,
\* and the process exits when the main thread is through.
Entries == {"slugsight_gds", "advanced_web_gui"}
RunEndings == {"KeyboardInterrupt", "return", "Exception"}

ShutdownInit ==
  /\ ThreadsAtRest
  /\ ParserAtRest
  /\ packet_count = 0
  /\ Opened(LoggerConfigs)
  /\ data_values = InitialData
  /\ frame = "nothing"
  /\ entry \in Entries
  /\ mainpc = "run"
  /\ closes = 0

\* where the main thread goes when app.run ends: advanced_web_gui.py closes
\* in a `finally` (lines 1232-1235), slugsight_gds.py in its `except
\* KeyboardInterrupt` (lines 210-212) and nowhere else
AfterRun(script, ending) ==
  IF script = "advanced_web_gui" \/ ending = "KeyboardInterrupt"
  THEN "close" ELSE "exited"

\* datalogger.write called by the ingestion thread while app.run serves
RunWrite ==
  /\ mainpc = "run"
  /\ WriteCall

\* app.run ends
RunEnds ==
  /\ mainpc = "run"
  /\ \E ending \in RunEndings : mainpc' = AfterRun(entry, ending)
  /\ UNCHANGED << threadVars, packet_count, parserVars, loggerVars, frame,
                  entry, closes, data_values >>

\* datalogger.close() (slugsight_gds.py line 212, advanced_web_gui.py line
\* 1235), then the end of the script
MainClose ==
  /\ mainpc = "close"
  /\ Close
  /\ closes' = closes + 1
  /\ mainpc' = "exited"
  /\ UNCHANGED << threadVars, packet_count, parserVars, frame, entry,
                  data_values >>

ShutdownNext == RunWrite \/ RunEnds \/ MainClose

\* The main thread of either script from app.run to the end of the process.
ShutdownSpec == ShutdownInit /\ [][ShutdownNext]_vars

\* ------------------------------------------------------ specifications
Next ==
  \/ ReaderNext
  \/ \E c \in Clients : HandlerNext(c)
  \/ \E c \in Clients : TransportNext(c)

\* The whole program: the ingestion thread, the handlers and their transports.
Spec == Init /\ [][Next]_vars

\* The connection manager and the read loop with one subscriber connection at
\* a time: every step of the ingestion thread, every outcome of the locator,
\* of the open and of a read.
LinkNext ==
  \/ ReaderNext
  \/ HandlerNext(1)
  \/ TransportNext(1)

LinkSpec == Init /\ [][LinkNext]_vars

\* Each thread that can run does run: the operating system schedules the
\* ingestion thread and the handler threads.
LinkFairSpec ==
  /\ LinkSpec
  /\ SF_vars(ReaderNext)
  /\ WF_vars(HandlerNext(1))

\* A thread that waits for data_lock (`with data_lock`, lines 59, 69, 89,
\* 104, 116, 138, 158, 163, 177) gets it if the lock is free again and again:
\* no thread is passed over for ever.
LockFairSpec ==
  /\ LinkSpec
  /\ SF_vars(ReaderNext)
  /\ SF_vars(HandlerNext(1))

\* The fan-out to up to MaxClients concurrent subscribers while the serial
\* link, once opened, stays up: the ingestion thread without the failures of
\* the open and of readline.
SteadyReaderNext ==
  \/ CheckPort \/ SleepNotFound \/ Locate \/ PortLock \/ PortSet
  \/ OpenOk \/ ConnLock \/ ConnSet
  \/ ReadNothing \/ ReadRecord
  \/ LogOk \/ LogRaises \/ SleepAfterError
  \/ UpdateLock \/ Update \/ CopyLock \/ CopyClients
  \/ SendOk \/ SendFails \/ SendDone \/ RemoveLock \/ RemoveDead

FanoutNext ==
  \/ SteadyReaderNext
  \/ \E c \in Clients : HandlerNext(c)
  \/ \E c \in Clients : TransportNext(c)

FanoutSpec == Init /\ [][FanoutNext]_vars

\* ---------------------------------------------------------- vocabulary
Registered(c) == c \in Range(global_clients)
IsBroadcast(e) == e.kind = "bcast"
IsSnapshot(e) == e.kind = "snap"
Broadcasts(c) == SelectSeq(sent[c], IsBroadcast)
Snapshots(c) == SelectSeq(sent[c], IsSnapshot)
\* the subscribers to which a send of the record's envelope has returned
SentRecord(c, k) == { i \in DOMAIN sent[c] : IsBroadcast(sent[c][i]) /\ sent[c][i].env.data = k }
FailedBroadcast(c) == \E i \in DOMAIN sent[c] : IsBroadcast(sent[c][i]) /\ ~sent[c][i].ok
InOrder(q) == \A i, j \in DOMAIN q : i < j => q[i].env.data < q[j].env.data
RoundOver == rpc = "send" /\ idx > Len(copy)
InReadLoop ==
  rpc \in {"read", "log", "sleep_err", "upd_lock", "update", "copy_lock",
           "copy", "send", "rm_lock", "remove"}
BackingOff == rpc \in {"sleep_nf", "fin_sleep"}
Attempting == rpc \in {"locate", "open"}

\* ---------------------------------------------------------------- C1
\* C1: between two frames, every subscriber that has stayed registered since
\* before a record was accepted has been sent exactly one broadcast envelope
\* for each record accepted since, and the envelopes in acceptance order.
C1_OneEnvelopePerAcceptedRecord ==
  rpc = "read" =>
    \A c \in Clients :
      Registered(c) =>
        /\ \A k \in (regAt[c] + 1)..packet_count : Cardinality(SentRecord(c, k)) = 1
        /\ InOrder(Broadcasts(c))

\* ---------------------------------------------------------------- C2
\* C2: when a broadcast round is over, a send of its envelope has been made to
\* every subscriber of the copied list, whichever sends failed; the dead list
\* holds exactly the subscribers whose send failed; a subscriber whose
\* broadcast sends have not failed is in the registry until its own handler
\* removes it; and between two frames every registered subscriber has been
\* sent the envelope of every round completed since it registered.
C2_FailureIsolated ==
  /\ RoundOver =>
       \A i \in 1..Len(copy) : SentRecord(copy[i], payload.data) # {}
  /\ rpc \in {"send", "rm_lock", "remove"} =>
       \A c \in Clients :
         c \in Range(dead_clients) <=>
           \E i \in SentRecord(c, payload.data) : ~sent[c][i].ok
  /\ \A c \in Clients :
       (hpc[c] \in {"snap_lock", "snapshot", "snap_send", "receive",
                    "dereg_lock", "deregister"} /\ ~FailedBroadcast(c))
         => Registered(c)
  /\ rpc = "read" =>
       \A c \in Clients :
         Registered(c) =>
           \A k \in Range(rounds) : k > regAt[c] => Cardinality(SentRecord(c, k)) = 1

\* a round in which the send to the first subscriber failed and the send to
\* the second returned
C2_Witness ==
  /\ RoundOver
  /\ Len(copy) = 2
  /\ dead_clients = << copy[1] >>
  /\ \E i \in SentRecord(copy[2], payload.data) : sent[copy[2]][i].ok
  /\ Registered(copy[2])

\* ---------------------------------------------------------------- C3
\* C3: a handler that waits for the remote disconnect (or is past it) has
\* made exactly one snapshot send, of the envelope it serialized; and the
\* envelope it serializes carries the store's status and data of that moment.
C3_SnapshotOnRegistration ==
  /\ [](\A c \in Clients :
          hpc[c] \in {"receive", "dereg_lock", "deregister", "done"} =>
            /\ Len(Snapshots(c)) = 1
            /\ Snapshots(c)[1].env = hpayload[c])
  /\ [][\A c \in Clients :
          (hpc[c] = "snapshot" /\ hpc'[c] # "snapshot") =>
            /\ hpayload'[c] = Envelope(global_status, global_data)
            /\ hpc'[c] = "snap_send"]_vars

\* the handler waits in receive, its snapshot was sent, and no record has
\* been accepted since it registered
C3_Witness ==
  \E c \in Clients :
    /\ hpc[c] = "receive"
    /\ Len(sent[c]) = 1
    /\ sent[c][1] = [kind |-> "snap", env |-> Envelope(global_status, global_data),
                     ok |-> TRUE]
    /\ regAt[c] = packet_count
    /\ packet_count > 0

\* ---------------------------------------------------------------- C4
\* C4: once the round in which a broadcast send to a subscriber failed is
\* over, the subscriber is not in the registry, and no broadcast send follows
\* a failed one in what has been sent to it.
C4_FailedSubscriberRemoved ==
  \A c \in Clients :
    /\ (FailedBroadcast(c) /\ c \notin Range(dead_clients)) => ~Registered(c)
    /\ \A i, j \in DOMAIN sent[c] :
         (i < j /\ IsBroadcast(sent[c][i]) /\ ~sent[c][i].ok)
           => ~IsBroadcast(sent[c][j])

\* the round is over, the failed subscriber is out of the registry while its
\* handler has not yet noticed the disconnect, and a later record is accepted
C4_Witness ==
  \E c \in Clients :
    /\ FailedBroadcast(c)
    /\ hpc[c] = "receive"
    /\ ~Registered(c)
    /\ rpc = "send"
    /\ payload.data > Broadcasts(c)[Len(Broadcasts(c))].env.data

\* ---------------------------------------------------------------- C5
\* C5: while a send to a stalled subscriber has not returned, the ingestion
\* thread can still take a step (read, log, deliver to the others).
C5_StalledSubscriberDoesNotBlock ==
  (rpc = "send" /\ idx <= Len(copy) /\ conn[copy[idx]] = "stalled")
    => ENABLED ReaderNext

\* ---------------------------------------------------------------- C6
\* C6: the ingestion thread is always at a position of its loop, and from
\* every position outside the read loop it goes on to another locator call or
\* open attempt.
C6_NoTerminalState ==
  /\ [](InReadLoop \/ Attempting \/ BackingOff
          \/ rpc \in {"top", "port_lock", "port_set", "conn_lock", "conn_set",
                      "fin_lock", "fin_set"})
  /\ (rpc \in {"fin_lock", "fin_set", "fin_sleep", "top", "sleep_nf"}) ~> Attempting

\* a stream error after a record, then the locator called again
C6_Witness == rpc = "locate" /\ failed /\ packet_count > 0

\* ---------------------------------------------------------------- C7
\* C7: an attempt (locator call or open) that follows a failure is preceded
\* by exactly one back-off wait.
C7_SingleBackoff == (Attempting /\ failed) => waits = 1

\* ---------------------------------------------------------------- C8
\* C8: no open is attempted, and no stream is open, on the sentinel: the
\* address opened was given at start or returned by the locator; and with the
\* sentinel as address the thread waits and calls the locator.
C8_SentinelNeverOpened ==
  /\ (rpc \in {"open", "conn_lock", "conn_set"} \/ ser_open) =>
       (port # NOT_FOUND /\ port \in known)
  /\ rpc \in {"sleep_nf", "locate"} => port = NOT_FOUND

\* an open attempted on a port the locator returned after a stream error
C8_Witness == rpc = "open" /\ port \in known /\ packet_count > 0

\* ---------------------------------------------------------------- C9
\* C9: the connected flag is true throughout the read loop, false in every
\* back-off wait and locator call and up to the next open, and false at start.
C9_ConnectedFlag ==
  /\ InReadLoop => global_status.arduino_connected
  /\ (BackingOff \/ rpc \in {"top", "locate", "port_lock", "port_set", "open"})
       => ~global_status.arduino_connected

\* in the back-off wait after a stream error
C9_Witness ==
  rpc = "fin_sleep" /\ ~global_status.arduino_connected /\ packet_count > 0

\* --------------------------------------------------------------- C10
\* C10: whenever the ingestion thread waits (for a frame or in a back-off),
\* the last envelope sent to every registered subscriber whose handler waits
\* for the disconnect carries the store's present connection status.
C10_StatusChangePushed ==
  rpc \in {"read", "sleep_nf", "fin_sleep"} =>
    \A c \in Clients :
      (Registered(c) /\ hpc[c] = "receive" /\ conn[c] = "ok" /\ sent[c] # << >>)
        => /\ sent[c][Len(sent[c])].env.connected = global_status.arduino_connected
           /\ sent[c][Len(sent[c])].env.port = global_status.port

\* ------------------------------------------- vocabulary of the parser
Called == ret.out # "nocall"
Numeric(tok) == tok.k = "num"
NonNumeric(tok) == tok.k = "text"
CanonicalChannels ==
  << "pitch", "roll", "yaw", "altitude", "velocity", "accel_x", "accel_y",
     "accel_z", "pressure_pa", "imu_temp_c", "gps_fix", "gps_sats", "gps_lat",
     "gps_lon", "gps_alt_m", "gps_speed_m_s", "vbat", "rssi" >>
\* the line is a waiting-for-fix line
Waiting(line) == line # << >> /\ line[1] = WaitingTok
\* the decimals a channel keeps (7: all those a field of the model has)
Decimals(i) ==
  CASE i \in {11, 12} -> 0
    [] i \in {4, 5, 9, 10, 15} -> 2
    [] i = 17 -> 3
    [] i \in {13, 14} -> 6
    [] OTHER -> 7
Truncated(v) == IF v >= 0 THEN (v \div One) * One ELSE -(((-v) \div One) * One)
Nearest(v, d) ==
  IF v >= 0 THEN RoundNat(v, 10 ^ (7 - d)) ELSE -RoundNat(-v, 10 ^ (7 - d))
\* the number channel i holds for a field of value v
Expected(i, v) == IF i \in {11, 12} THEN Truncated(v) ELSE Nearest(v, Decimals(i))
\* the number channel i of the record holds
Held(i) == ret.ch[CanonicalChannels[i]]
IsNumber(x, v) == x.k = "fin" /\ x.v = v
\* the number channel i is to hold for the line of the last call
Due(i) == IF Numeric(raw_data[i]) THEN Expected(i, raw_data[i].v) ELSE 0
\* range validation is off, or every configured channel's number is in range
RangeAccepts ==
  parser_config.enable_range_check =>
    \A i \in 1..SchemaLength :
      CanonicalChannels[i] \in DOMAIN parser_config.ranges =>
        /\ parser_config.ranges[CanonicalChannels[i]][1] <= Due(i)
        /\ Due(i) <= parser_config.ranges[CanonicalChannels[i]][2]
AllNumeric == Len(raw_data) = SchemaLength /\ \A i \in 1..SchemaLength : Numeric(raw_data[i])
OneNonNumeric(p) ==
  /\ Len(raw_data) = SchemaLength
  /\ NonNumeric(raw_data[p])
  /\ \A i \in 1..SchemaLength : i # p => Numeric(raw_data[i])

\* --------------------------------------------------------------- C11
\* C11 as stated: after parse of a line of 18 numeric fields, a record is
\* returned and every channel holds the value of the field of its position.
C11_FieldValuesKept ==
  (Called /\ AllNumeric) =>
    /\ ret.out = "record"
    /\ \A i \in 1..SchemaLength : IsNumber(Held(i), raw_data[i].v)

\* C11 amended: after parse of a line of 18 numeric fields a record is
\* returned unless range validation is enabled and rejects it, and every
\* channel of the record holds the value of the field of its position,
\* truncated to an integer for gps_fix and gps_sats and rounded to the
\* decimals of its channel (6 for gps_lat, gps_lon; 3 for vbat; 2 for
\* altitude, velocity, pressure_pa, imu_temp_c, gps_alt_m).
C11_FieldValuesDecoded ==
  (Called /\ AllNumeric) =>
    /\ ret.out = (IF RangeAccepts THEN "record" ELSE "none")
    /\ ret.out = "record" =>
         \A i \in 1..SchemaLength :
           /\ IsNumber(Held(i), Expected(i, raw_data[i].v))
           /\ Held(i).t = (IF i \in {11, 12} THEN "int" ELSE "float")

\* a record whose gps_lat lost its seventh decimal
C11_Witness ==
  /\ AllNumeric
  /\ ret.out = "record"
  /\ raw_data[13] = Num(376789012)
  /\ Held(13) = FloatOf(376789010)
  /\ Held(1) = FloatOf(One)

\* --------------------------------------------------------------- C12
\* C12: after parse of a line of 17 fields a record is returned whose first
\* 17 channels hold the fields by position and whose rssi is 0.0.
C12_SeventeenFieldsAccepted ==
  (Called /\ Len(raw_data) = SchemaLength - 1 /\ ~Waiting(raw_data)) =>
    /\ ret.out = "record"
    /\ \A i \in 1..(SchemaLength - 1) : IsNumber(Held(i), Due(i))
    /\ IsNumber(Held(SchemaLength), 0)

\* --------------------------------------------------------------- C13
\* C13 as stated: after parse of an 18-field line with exactly one
\* non-numeric field, a record is returned, that channel is 0.0, every other
\* channel holds its parsed value, and the counter has advanced.
C13_OneBadFieldZeroed ==
  \A p \in 1..SchemaLength :
    (Called /\ OneNonNumeric(p)) =>
      /\ ret.out = "record"
      /\ Held(p) = FloatOf(0)
      /\ \A i \in 1..SchemaLength : i # p => IsNumber(Held(i), Due(i))
      /\ packet_count = ret.packet_count + 1

\* C13 amended: the same, unless range validation is enabled and rejects the
\* record (the 0.0 put in is checked against its range like any value): then
\* no record is returned.
C13_OneBadFieldZeroedIfInRange ==
  \A p \in 1..SchemaLength :
    (Called /\ OneNonNumeric(p)) =>
      /\ ret.out = (IF RangeAccepts THEN "record" ELSE "none")
      /\ ret.out = "record" =>
           /\ Held(p) = FloatOf(0)
           /\ \A i \in 1..SchemaLength : i # p => IsNumber(Held(i), Due(i))
           /\ packet_count = ret.packet_count + 1

\* the satellite count is text: gps_sats is 0.0, gps_fix and rssi as sent
C13_Witness ==
  /\ OneNonNumeric(12)
  /\ ret.out = "record"
  /\ Held(12) = FloatOf(0)
  /\ Held(11) = IntOf(11 * One)
  /\ Held(18) = FloatOf(18 * One)
  /\ packet_count = 2

\* --------------------------------------------------------------- C14
\* C14: after parse of a line that is not a waiting line and has fewer than
\* 17 or more than 18 fields, no record is returned.
C14_FarOffCountRejected ==
  (Called /\ ~Waiting(raw_data)
     /\ (Len(raw_data) < SchemaLength - 1 \/ Len(raw_data) > SchemaLength))
    => ret.out = "none"

\* a line of 19 numeric fields rejected
C14_Witness ==
  /\ Len(raw_data) = SchemaLength + 1
  /\ \A i \in DOMAIN raw_data : Numeric(raw_data[i])
  /\ ret.out = "none"

\* --------------------------------------------------------------- C15
\* C15: after parse of a waiting line a record is returned with status
\* waiting and every channel 0.0, except that rssi holds the last field when
\* the line has more than one field and the last one is numeric.
C15_WaitingRecord ==
  (Called /\ Waiting(raw_data)) =>
    /\ ret.out = "record"
    /\ "status" \in DOMAIN ret.ch
    /\ ret.ch["status"] = "waiting"
    /\ \A i \in 1..(SchemaLength - 1) : IsNumber(Held(i), 0)
    /\ IsNumber(Held(SchemaLength),
                IF Len(raw_data) > 1 /\ Numeric(raw_data[Len(raw_data)])
                THEN raw_data[Len(raw_data)].v ELSE 0)

\* --------------------------------------------------------------- C16
\* C16: the counter moves by exactly one with each record returned and not at
\* all with a call that returns none, and the records returned so far carry
\* the numbers 0, 1, 2, ... in this order.
C16_CounterCountsAccepted ==
  /\ [](/\ packet_count = Len(accepted)
        /\ \A n \in DOMAIN accepted : accepted[n] = n - 1
        /\ ret.out = "record" => ret.packet_count = packet_count - 1)
  /\ [][/\ packet_count' \in {packet_count, packet_count + 1}
        /\ packet_count' = packet_count + 1 <=>
             (ret'.out = "record" /\ accepted' = Append(accepted, packet_count))
        /\ ret'.out # "record" => accepted' = accepted]_vars

\* two records returned, then a line rejected
C16_Witness ==
  /\ accepted = << 0, 1 >>
  /\ packet_count = 2
  /\ ret.out = "none"
  /\ Len(raw_data) = SchemaLength

\* --------------------------------------------------------------- C17
\* C17: with range validation enabled, after parse of an 18-field line whose
\* fields are numbers or text, no record is returned if a configured channel
\* is out of its range, and the record is returned, holding numbers within
\* the configured ranges, if every one is in range; a call that returns no
\* record leaves the counter as it was.
C17_OutOfRangeRejected ==
  /\ []((/\ Called
         /\ parser_config.enable_range_check
         /\ Len(raw_data) = SchemaLength
         /\ \A i \in 1..SchemaLength : Numeric(raw_data[i]) \/ NonNumeric(raw_data[i]))
          => /\ ret.out = (IF RangeAccepts THEN "record" ELSE "none")
             /\ ret.out = "record" =>
                  \A i \in 1..SchemaLength :
                    /\ IsNumber(Held(i), Due(i))
                    /\ CanonicalChannels[i] \in DOMAIN parser_config.ranges =>
                         /\ parser_config.ranges[CanonicalChannels[i]][1] <= Held(i).v
                         /\ Held(i).v <= parser_config.ranges[CanonicalChannels[i]][2])
  /\ [][ret'.out = "none" => packet_count' = packet_count]_vars

\* an altitude above its range: the line is rejected after a record
C17_Witness ==
  /\ parser_config.enable_range_check
  /\ AllNumeric
  /\ raw_data[4] = Num(376789012)
  /\ raw_data[9] = Base(9)
  /\ ret.out = "none"
  /\ packet_count = 1

\* --------------------------------------------------------------- C18
\* C18: parse returns a record or none and never raises; and it returns none
\* for the empty line, for a field count other than 18, for a record range
\* validation rejects, and for an error inside (an infinite gps_fix or
\* gps_sats).
C18_NeverRaises ==
  /\ ret.out \in {"nocall", "record", "none"}
  /\ (Called /\ (\/ raw_data = << EmptyTok >>
                 \/ Len(raw_data) # SchemaLength
                 \/ \E i \in {11, 12} : i <= Len(raw_data) /\ raw_data[i] = InfTok))
       => ret.out = "none"
  /\ (Called /\ parser_config.enable_range_check /\ Len(raw_data) = SchemaLength
        /\ (\A i \in 1..SchemaLength : Numeric(raw_data[i]) \/ NonNumeric(raw_data[i]))
        /\ ~RangeAccepts)
       => ret.out = "none"

\* an infinite gps_fix: the error inside is taken and none is returned
C18_Witness ==
  /\ Len(raw_data) = SchemaLength
  /\ raw_data[11] = InfTok
  /\ ret.out = "none"
  /\ ~parser_config.enable_range_check

\* ------------------------------------------- vocabulary of the logger
\* the rows written to the file that no flush has pushed to the disk yet
Unflushed ==
  Cardinality({ i \in (flushed + 1)..Len(file_rows) : file_rows[i].kind = "row" })

\* the rows of the file, in order, without the header lines
DataRows == SelectSeq(file_rows, LAMBDA l : l.kind = "row")

HeaderRows == SelectSeq(file_rows, LAMBDA l : l.kind = "header")

\* --------------------------------------------------------------- C19
\* C19: with a flush interval K >= 1, the writes that ended with a flush are
\* exactly those whose number is a multiple of K; after a write fewer than K
\* rows are written and not flushed; and with K = 1 nothing written is left
\* unflushed after a write.
C19_FlushEveryK ==
  logger_config.buffer_size >= 1 =>
    /\ flushed_after =
         { n \in 1..write_count : n % logger_config.buffer_size = 0 }
    /\ lret = "write_ok" => Unflushed < logger_config.buffer_size
    /\ (lret = "write_ok" /\ logger_config.buffer_size = 1)
         => flushed = Len(file_rows)

\* three writes with K = 2: the second was flushed, the third is pending
C19_Witness ==
  /\ logger_config.buffer_size = 2
  /\ write_count = 3
  /\ lret = "write_ok"
  /\ flushed_after = {2}
  /\ Unflushed = 1

\* --------------------------------------------------------------- C20
\* C20: a close() after a close() that has completed raises no error.
C20_CloseIdempotent == lret # "close_raised"

\* --------------------------------------------------------------- C21
\* C21: once close() has closed the file, every line written to it has been
\* flushed, whatever the flush interval and the number of writes; and the rows
\* of the file are the rows of the writes, one for each write that wrote its
\* row, in the order of the writes.
C21_ClosedFileHoldsEveryRow ==
  csv_file = "closed" =>
    /\ flushed = Len(file_rows)
    /\ Len(DataRows) = write_count
    /\ DataRows =
         [i \in 1..Len(written) |->
            RowLine(csv_writer.fieldnames,
                    FormatFloats(written[i], logger_config.float_precision))]

\* three writes with K = 2 and then close: the third row, which no write had
\* flushed, is on the disk
C21_Witness ==
  /\ csv_file = "closed"
  /\ logger_config.buffer_size = 2
  /\ write_count = 3
  /\ flushed_after = {2}
  /\ Len(DataRows) = 3
  /\ flushed = Len(file_rows)

\* --------------------------------------------------------------- C22
\* C22: the field names of the writer are the keys of the first dictionary
\* written and every row of the file has exactly these columns; with the
\* header enabled the file that has a row starts with the one header line it
\* holds, which names these columns; with the header disabled the file holds
\* no header line.
C22_ColumnsFixedByFirstRecord ==
  /\ written # << >> =>
       /\ csv_writer.fieldnames = DOMAIN written[1]
       /\ \A i \in 1..Len(file_rows) :
            DOMAIN file_rows[i].cells = DOMAIN written[1]
  /\ (logger_config.include_header /\ written # << >>) =>
       /\ file_rows[1] = HeaderLine(DOMAIN written[1])
       /\ Len(HeaderRows) = 1
  /\ ~logger_config.include_header => HeaderRows = << >>

\* after a first dictionary of two keys, one with a key less was written and
\* one with a key more was refused: one header, two rows of two columns
C22_Witness ==
  /\ logger_config.include_header
  /\ Len(written) = 2
  /\ DOMAIN written[1] = {"altitude", "gps_fix"}
  /\ DOMAIN written[2] = {"altitude"}
  /\ lret = "write_raised"
  /\ csv_file = "open"
  /\ logger_config.buffer_size = 1
  /\ Len(file_rows) = 3

\* ---------------------------------------- vocabulary of the read loop
\* a record has gone through lines 85-86 with a write that returned
JustLogged == rpc = "upd_lock" /\ parsed.packet_count > 0
\* the row that write has written
LastRow == file_rows[Len(file_rows)]
\* the channels with an entry in the rounding table
TableChannels == { i \in 1..SchemaLength : Decimals(i) \in {2, 3, 6} }

C24_WriteFailureSurfaced ==
  [][(rpc = "log" /\ rpc' \notin {"log", "upd_lock"}) => ~InReadLoop']_vars

\* --------------------------------------------------------------- C25
\* C25: once a record has passed lines 85-86 without an exception, it is in
\* the log, and the log holds the records in the order they were accepted.
C25_EveryAcceptedRecordWritten ==
  rpc = "upd_lock" =>
    /\ parsed.rid \in Range(log_rows)
    /\ \A i, j \in 1..Len(log_rows) : i < j => log_rows[i] < log_rows[j]

\* --------------------------------------------------------------- C26
\* C26: when the main thread of either script is through, however app.run
\* ended, datalogger.close() has been called exactly once.
C26_ClosedOnceAtExit == mainpc = "exited" => closes = 1

\* --------------------------------------------------------------- C27
\* C27: between the store update for a record and the taking of the copy of
\* the subscriber list used to broadcast it, the registry does not change.
C27_OneCriticalSection ==
  [][rpc = "copy_lock" => global_clients' = global_clients]_vars

\* --------------------------------------------------------------- C28
\* C28: a thread that is in a send (the ingestion thread in a broadcast send,
\* a handler in its snapshot send) does not hold data_lock; and a thread holds
\* data_lock only where it sets the status, updates the store and serializes
\* the envelope, copies the registry, appends to it or removes from it.
C28_NoSendUnderLock ==
  /\ rpc = "send" => data_lock # READER
  /\ \A c \in Clients : hpc[c] = "snap_send" => data_lock # c
  /\ data_lock = READER =>
       rpc \in {"port_set", "conn_set", "update", "copy", "remove", "fin_set"}
  /\ \A c \in Clients :
       data_lock = c => hpc[c] \in {"register", "snapshot", "deregister"}

\* a broadcast send and the snapshot send to the same subscriber are both
\* under way, and nobody holds the lock
C28_Witness ==
  /\ rpc = "send"
  /\ idx <= Len(copy)
  /\ hpc[copy[idx]] = "snap_send"
  /\ data_lock = FREE

\* --------------------------------------------------------------- C29
\* a step of the ingestion thread that reads a frame and skips it: readline
\* timed out, gave a blank line or bytes that do not decode, or gave a line
\* for which parse returned None
SkipStep ==
  /\ rpc = "read"
  /\ \/ frame' \in {"timeout", "blank", "undecodable"} /\ frame' # frame
     \/ /\ frame' = "line"
        /\ ret'.out = "none"
        /\ << frame, raw_data >>' # << frame, raw_data >>

\* C29: a step that skips a frame leaves the store, the status, the registry
\* and the log as they are and sends nothing; the stream stays open, the
\* status stays connected and the thread is at readline again.
C29_SkippedFrameChangesNothing ==
  [][SkipStep =>
       /\ UNCHANGED << global_data, global_status, global_clients, log_rows,
                       file_rows, written, flushed, sent, packet_count >>
       /\ rpc' = "read"
       /\ ser_open'
       /\ global_status'.arduino_connected]_vars

\* after a first record was stored, a line of 17 fields has been read and
\* skipped: the thread is at readline, the store holds the first record
C29_Witness ==
  /\ rpc = "read"
  /\ frame = "line"
  /\ raw_data = BaseLine(SchemaLength - 1)
  /\ ret.out = "none"
  /\ packet_count = 1
  /\ global_data = 1
  /\ Registered(1)
  /\ ser_open

\* --------------------------------------------------------------- C30
\* C30: a read is made only on the open stream; when the thread leaves
\* readline otherwise than with a frame, the stream is closed; the stream is
\* open nowhere outside Connected; the connected flag is false from the
\* back-off on, until the next open; and after a failure a back-off wait has
\* been made before the locator is called or an open is attempted.
C30_ReadErrorLeavesConnected ==
  /\ [](rpc = "read" => ser_open)
  /\ [][(rpc = "read" /\ rpc' \notin {"read", "log"})
          => (rpc' = "fin_lock" /\ ~ser_open')]_vars
  /\ [](ser_open => (InReadLoop \/ rpc \in {"conn_lock", "conn_set"}))
  /\ []((BackingOff \/ Attempting \/ rpc \in {"top", "port_lock", "port_set"})
          => ~global_status.arduino_connected)
  /\ []((failed /\ Attempting) => waits >= 1)

\* readline has just raised: the stream is closed, the flag (still true) is
\* about to be cleared by the `finally`
C30_Witness ==
  /\ rpc = "fin_lock"
  /\ failed
  /\ ~ser_open
  /\ port = NOT_FOUND
  /\ global_status.arduino_connected
  /\ global_data = 1

\* --------------------------------------------------------------- C31
\* C31: a subscriber whose registration snapshot send has failed is not in
\* the registry once its handler is past the send, and no broadcast send to
\* it follows the failed snapshot send.
C31_SnapshotFailureEndsSubscription ==
  \A c \in Clients :
    /\ \A i, j \in DOMAIN sent[c] :
         (i < j /\ IsSnapshot(sent[c][i]) /\ ~sent[c][i].ok)
           => ~IsBroadcast(sent[c][j])
    /\ (hpc[c] = "receive" /\ \E i \in DOMAIN sent[c] :
                                IsSnapshot(sent[c][i]) /\ ~sent[c][i].ok)
         => ~Registered(c)

\* --------------------------------------------------------------- C32
\* C32 as stated: once the handler of a subscriber has deregistered it and
\* returned, no send to that subscriber is made.
C32_NoSendAfterDeregistration ==
  [][\A c \in Clients :
       hpc[c] = "done" => Len(sent'[c]) <= Len(sent[c])]_vars

\* C32 amended: a subscriber whose handler has deregistered it is not in the
\* registry, so that no copy taken afterwards holds it; it is still referred
\* to only by the copy of the broadcast round in progress, which holds it
\* once: that round makes at most one more send to it.  Whoever is in the
\* registry has a handler that has appended it and not yet removed it.
C32_NoSendAfterDeregistrationButInRound ==
  /\ \A c \in Clients :
       hpc[c] = "done" =>
         /\ ~Registered(c)
         /\ rpc \in {"send", "rm_lock", "remove"}
         /\ Cardinality({ i \in DOMAIN copy : copy[i] = c }) = 1
  /\ \A c \in Clients :
       Registered(c) =>
         hpc[c] \in {"snap_lock", "snapshot", "snap_send", "receive",
                     "dereg_lock", "deregister"}

\* the handler has deregistered the subscriber and returned while the round's
\* send to it is still to come
C32_Witness ==
  /\ hpc[1] = "done"
  /\ rpc = "send"
  /\ idx <= Len(copy)
  /\ copy[idx] = 1
  /\ ~Registered(1)

\* --------------------------------------------------------------- C33
\* C33: global_status["port"] reads "Not Found" while the thread's port is
\* the sentinel, and reads the thread's port otherwise, but between the
\* locator's answer and the assignment of line 61.
C33_StorePortIsCurrent ==
  /\ port = NOT_FOUND => global_status.port = "Not Found"
  /\ (port # NOT_FOUND /\ rpc \notin {"port_lock", "port_set"})
       => global_status.port = port

\* --------------------------------------------------------------- C36
\* C36: of two sends to a subscriber that have returned, the later one does
\* not carry an older record than the earlier one.
C36_NoOlderEnvelopeAfterNewer ==
  \A c \in Clients :
    \A i, j \in DOMAIN sent[c] :
      (i < j /\ sent[c][i].ok /\ sent[c][j].ok)
        => sent[c][i].env.data <= sent[c][j].env.data

\* --------------------------------------------------------------- C34
\* C34: in a record returned, gps_fix and gps_sats hold, for a field that is
\* a number, the integer that number truncates to toward zero; every other
\* channel holds a float.
C34_FixAndSatsTruncated ==
  ret.out = "record" =>
    \A i \in 1..SchemaLength :
      IF i \in {11, 12}
      THEN Numeric(raw_data[i]) => Held(i) = IntOf(Truncated(raw_data[i].v))
      ELSE Held(i).t = "float"

\* a gps_fix field of -3.1234567 gives the integer -3
C34_Witness ==
  /\ ret.out = "record"
  /\ Len(raw_data) = SchemaLength
  /\ raw_data[11] = Num(-31234567)
  /\ Held(11) = IntOf(-3 * One)
  /\ Held(12) = IntOf(12 * One)

\* --------------------------------------------------------------- C35
\* the positions of the ingestion thread between the serialization of a
\* record's envelope and the end of its round
Broadcasting == rpc \in {"copy_lock", "copy", "send", "rm_lock", "remove"}

WellFormed(e) ==
  /\ e.type = "update"
  /\ e.connected \in BOOLEAN
  /\ e.port \in Ports \cup {"Not Found"}
  /\ e.data \in 0..MaxRecords

\* C35: the store holds a string for each of the 18 channels in every state,
\* "0.0" for each before any record is accepted and the record's values as
\* strings while its envelope is broadcast; every envelope sent, snapshot or
\* broadcast, has the type 'update', the connected flag and the port of the
\* status, and the store's data as they were when it was serialized.
C35_EnvelopeComplete ==
  /\ Cardinality(Keys) = SchemaLength
  /\ Keys \subseteq DOMAIN data_values
  /\ \A k \in DOMAIN data_values : data_values[k].t = "str"
  /\ global_data = 0 => data_values = InitialData
  /\ Broadcasting =>
       /\ WellFormed(payload)
       /\ payload.data = global_data
       /\ \A k \in Keys : data_values[k] = [t |-> "str", k |-> ret.ch[k].k,
                                               v |-> ret.ch[k].v]
  /\ \A c \in Clients : hpc[c] = "snap_send" =>
       WellFormed(hpayload[c]) /\ hpayload[c].data <= global_data
  /\ \A c \in Clients : \A i \in DOMAIN sent[c] : WellFormed(sent[c][i].env)

\* the record of the line with seven decimals is in the store as strings
\* while its envelope has gone to the subscriber
C35_Witness ==
  /\ rpc = "send"
  /\ \E i \in DOMAIN sent[1] :
       IsBroadcast(sent[1][i]) /\ sent[1][i].ok /\ sent[1][i].env = payload
  /\ payload.data = 1
  /\ raw_data = Fractions(376789012)
  /\ data_values["gps_lat"] = [t |-> "str", k |-> "fin", v |-> 376789010]
  /\ data_values["gps_fix"] = [t |-> "str", k |-> "fin", v |-> 11 * One]
  /\ data_values["sys_status"] = Str("active")

\* --------------------------------------------------------------- C38
\* C38: while the ingestion thread pauses after an exception that `except
\* Exception` took in the read loop, the stream is open, the connected flag
\* is true, the address is a port and the lock is not the thread's; its next
\* step is back to readline, with the stream, the address and the status as
\* they were.
C38_StaysConnectedAfterError ==
  /\ [](rpc = "sleep_err" =>
         /\ ser_open
         /\ global_status.arduino_connected
         /\ port \in Ports
         /\ data_lock # READER)
  /\ [][(rpc = "sleep_err" /\ rpc' # rpc) =>
         /\ rpc' = "read"
         /\ ser_open'
         /\ port' = port
         /\ global_status' = global_status]_vars

\* the write of the second record has raised
C38_Witness ==
  /\ rpc = "sleep_err"
  /\ parsed.rid = 2
  /\ ser_open
  /\ global_status.arduino_connected

\* --------------------------------------------------------------- C37
\* the positions where a thread waits for data_lock
ReaderWaits ==
  rpc \in {"port_lock", "conn_lock", "upd_lock", "copy_lock", "rm_lock", "fin_lock"}
HandlerWaits(c) == hpc[c] \in {"reg_lock", "snap_lock", "dereg_lock"}

\* C37: the thread that holds data_lock can always take its next step, which
\* is neither a send, a read, a sleep nor an acquisition, and that step frees
\* the lock; so the lock is never held with no step possible, and a thread
\* that waits for the lock comes to hold it.
C37_NoDeadlockOnLock ==
  /\ [](data_lock = READER => ENABLED ReaderNext)
  /\ [](data_lock = 1 => ENABLED HandlerNext(1))
  /\ [][(data_lock = READER /\ rpc' # rpc) => data_lock' = FREE]_vars
  /\ [][\A c \in Clients :
         (data_lock = c /\ hpc'[c] # hpc[c]) => data_lock' = FREE]_vars
  /\ ReaderWaits ~> data_lock = READER
  /\ HandlerWaits(1) ~> data_lock = 1

\* the ingestion thread waits for the lock to update the store while the
\* handler holds it for its snapshot
C37_Witness ==
  /\ rpc = "upd_lock"
  /\ data_lock = 1
  /\ hpc[1] = "snapshot"

\* --------------------------------------------------------------- C39
\* a step in which the locator finds no port or the open raises
FailureStep ==
  \/ rpc = "locate" /\ rpc' = "top"
  \/ rpc = "open" /\ rpc' = "fin_lock"

\* C39: if from some point on no locator call comes back without a port and
\* no open raises, then whatever the position of the ingestion thread (the
\* sentinel as address, a back-off wait, an open that has just failed, a
\* stream lost later on), it comes to be in the read loop with the connected
\* flag true.
C39_EventuallyConnected ==
  <>[][~FailureStep]_vars =>
    []<>(InReadLoop /\ ser_open /\ global_status.arduino_connected)

\* after a record and the loss of the stream, the port has been opened again
\* and the flag is about to be set
C39_Witness ==
  /\ rpc = "conn_set"
  /\ packet_count > 0
  /\ ser_open
  /\ ~global_status.arduino_connected

\* --------------------------------------------------------------- C40
\* the list without the members of a set, the others in their order
Without(q, S) ==
  LET Stays(x) == x \notin S IN SelectSeq(q, Stays)

NoDuplicates(q) == \A i, j \in DOMAIN q : i # j => q[i] # q[j]

\* C40: the registry never holds a subscriber twice; the removal by the
\* ingestion thread leaves exactly the subscribers that are not among the
\* dead ones, and the removal by a handler exactly the subscribers other
\* than its own, in their order, whether or not the other removal of that
\* subscriber has been made before.
C40_RemovalIsIdempotent ==
  /\ [](NoDuplicates(global_clients) /\ NoDuplicates(dead_clients))
  /\ [][(rpc = "remove" /\ rpc' # rpc) =>
         global_clients' = Without(global_clients, Range(dead_clients))]_vars
  /\ [][\A c \in Clients :
         (hpc[c] = "deregister" /\ hpc'[c] # hpc[c]) =>
           global_clients' = Without(global_clients, {c})]_vars

\* the ingestion thread is about to remove a subscriber that its handler has
\* removed already, while the other subscriber is registered
C40_Witness ==
  /\ rpc = "remove"
  /\ 1 \in Range(dead_clients)
  /\ hpc[1] = "done"
  /\ ~Registered(1)
  /\ Registered(2)

\* the handler is about to remove a subscriber that the ingestion thread has
\* removed already
C40_OtherOrder ==
  /\ hpc[1] = "deregister"
  /\ ~Registered(1)
  /\ FailedBroadcast(1)
  /\ Registered(2)

====
